---- MODULE Spec2Model ----
(***************************************************************************)
(* A model of the key-value web service of src/service.go:                 *)
(*   - useEnvOrDefaultIfNotSet, the type-switching resolution of one       *)
(*     configuration value (specification SpecResolve);                    *)
(*   - main, which registers the three flags, parses the command line and  *)
(*     builds the ServerConfig (specification SpecMain);                   *)
(*   - the four handlers, running as concurrent request goroutines over    *)
(*     one KeyValueStore while the server listens (specification Spec);    *)
(*   - the same handlers under fair scheduling (specification SpecFair);   *)
(*   - ServerConfig.server: the listener, the termination signal and the   *)
(*     drain, with the handlers running (specification SpecLifecycle).     *)
(***************************************************************************)
EXTENDS Integers, Sequences, FiniteSets, TLC

VARIABLES
    call,       \* SpecResolve: one call of useEnvOrDefaultIfNotSet and its outcome
    environ,    \* SpecMain: the process environment (os.Getenv)
    args,       \* SpecMain: the flags given on the command line
    mainPc,     \* SpecMain: the statement main is at
    flagSet,    \* SpecMain: the registered flags' current values
    env,        \* the ServerConfig main builds and server() reads
    panicMsg,   \* SpecMain: the value main panicked with, "" while it has not
    phase,      \* the lifecycle state of the process
    exitCode,   \* the exit status once the process has ended, -1 before
    kvMap,      \* Spec: KeyValueStore.kvMap
    mutex,      \* Spec: KeyValueStore.Mutex, 0 when free, else the holding request
    reqs,       \* Spec: the request goroutines, one record each
    lastSet,    \* Spec: history, the <<key, value>> last assigned for each key
    lockedSet,  \* Spec: history, the <<key, value>> of the /set that last
                \* acquired the mutex, for each key
    clock,      \* seconds elapsed since server.Shutdown was called
    listener,   \* the listener of ListenAndServe: none, bound, closed or failed
    stop,       \* the channel of signal.Notify: empty, queued (a signal is in
                \* it) or received (main has taken the signal out)
    overdue     \* history: a request was in flight when the drain deadline passed

vars == <<call, environ, args, mainPc, flagSet, env, panicMsg,
          phase, exitCode, kvMap, mutex, reqs, lastSet, lockedSet, clock, listener,
          stop, overdue>>

(***************************************************************************)
(* Bounds of the model.                                                    *)
(***************************************************************************)
\* durations (in seconds) tried as values: 0 .. MaxDuration
MaxDuration == 2
\* request goroutines running at a time
MaxRequests == 2
\* request goroutines running at a time in the runs that are shut down
MaxDrainRequests == 1
\* request goroutines running at a time in the runs under fair scheduling
MaxFairRequests == 2

(***************************************************************************)
(* Go values behind interface{}: the dynamic type and the value.           *)
(***************************************************************************)
Nil == [type |-> "nil", s |-> "", d |-> 0, b |-> FALSE]
String(str) == [type |-> "string", s |-> str, d |-> 0, b |-> FALSE]
Duration(secs) == [type |-> "time.Duration", s |-> "", d |-> secs, b |-> FALSE]
Bool(flag) == [type |-> "bool", s |-> "", d |-> 0, b |-> flag]
IntSlice == [type |-> "[]int", s |-> "", d |-> 0, b |-> FALSE]
GoInt(n) == [type |-> "int", s |-> "", d |-> n, b |-> FALSE]

\* the outcome of a call: a returned value or a panic carrying a message
Return(v) == [kind |-> "return", val |-> v, msg |-> ""]
Panic(m) == [kind |-> "panic", val |-> Nil, msg |-> m]
Pending == [kind |-> "pending", val |-> Nil, msg |-> ""]

\* x.(T): the type assertion of Go; a failed one panics
TypeAssert(v, T) ==
    IF v.type = T
    THEN Return(v)
    ELSE Panic("interface conversion: interface {} is " \o v.type \o ", not " \o T)

(***************************************************************************)
(* useEnvOrDefaultIfNotSet (service.go:79-96).                             *)
(***************************************************************************)
useEnvOrDefaultIfNotSetNoEmptyCheck(envValue, defaultValue) ==
    IF envValue.type = "nil" THEN Return(defaultValue)
    ELSE IF envValue.type \in {"string", "time.Duration"} THEN Return(envValue)
    ELSE Panic("unexpected type " \o envValue.type)

useEnvOrDefaultIfNotSetNoPanic(envValue, defaultValue) ==
    IF envValue.type = "nil" THEN Return(defaultValue)
    ELSE IF envValue.type = "string"
    THEN IF Len(envValue.s) = 0 THEN Return(defaultValue) ELSE Return(envValue)
    ELSE IF envValue.type = "time.Duration"
    THEN IF envValue.d = 0
         THEN TypeAssert(defaultValue, "time.Duration")
         ELSE Return(envValue)
    ELSE Return(defaultValue)

useEnvOrDefaultIfNotSet(envValue, defaultValue) ==
    IF envValue.type = "nil" THEN Return(defaultValue)
    ELSE IF envValue.type = "string"
    THEN IF Len(envValue.s) = 0 THEN Return(defaultValue) ELSE Return(envValue)
    ELSE IF envValue.type = "time.Duration"
    THEN IF envValue.d = 0
         THEN TypeAssert(defaultValue, "time.Duration")
         ELSE Return(envValue)
    ELSE Panic("unexpected type " \o envValue.type)

(***************************************************************************)
(* Values the variables of a specification hold while it does not use them.*)
(***************************************************************************)
NoCall == [envValue |-> Nil, defaultValue |-> Nil, outcome |-> Pending]
NoEnviron == [SERVER_ADDRESS |-> "", SHUTDOWN_TIMEOUT |-> "",
              ENABLE_LOGGING_MIDDLEWARE |-> ""]
NoArgs == [f \in {"address", "shutdown-timeout", "enable-logging-middleware"} |-> Nil]

\* service.go:51: the build-time version string, empty unless set by -ldflags
version == ""

\* the zero ServerConfig (service.go:37-43)
ZeroServerConfig ==
    [ServiceName |-> "", ServerAddress |-> "", ShutdownTimeout |-> 0,
     EnableLoggingMiddleware |-> FALSE, ServiceVersion |-> ""]

(***************************************************************************)
(* SpecResolve: useEnvOrDefaultIfNotSet applied to one pair of arguments,  *)
(* as TestUseEnvOrDefaultIfNotSet and main call it.                        *)
(***************************************************************************)
DefaultServerAddress == "localhost:8080"
\* service.go:58: time.Second*10, in seconds
DefaultShutdownTimeout == 10

StringValues == {String(""), String("0.0.0.0:9090"), String("1s"), String("10s"), String("true")}
DurationValues == {Duration(n) : n \in 0..MaxDuration} \cup {Duration(DefaultShutdownTimeout)}
\* values of a type the switch has no case for
UnexpectedValues == {IntSlice, GoInt(1), Bool(TRUE)}
EnvValues == {Nil} \cup StringValues \cup DurationValues \cup UnexpectedValues
DefaultValues ==
    {String(DefaultServerAddress), Bool(FALSE)}
        \cup {Duration(n) : n \in {DefaultShutdownTimeout, 20, 30}}

\* The argument pairs the callers pass: a time.Duration envValue comes with a
\* time.Duration default (part_000:174); a string, nil or other envValue comes
\* with a default of any of the three setting types (service.go:56-59).
CallInputs ==
    {c \in [envValue : EnvValues, defaultValue : DefaultValues, outcome : {Pending}] :
        c.envValue.type = "time.Duration" => c.defaultValue.type = "time.Duration"}

InitIdleMain ==
    /\ environ = NoEnviron
    /\ args = NoArgs
    /\ mainPc = "none"
    /\ flagSet = NoArgs
    /\ env = ZeroServerConfig
    /\ panicMsg = ""

InitIdleServer ==
    /\ phase = "none"
    /\ exitCode = -1
    /\ kvMap = <<>>
    /\ mutex = 0
    /\ reqs = <<>>
    /\ lastSet = {}
    /\ lockedSet = {}
    /\ clock = 0
    /\ listener = "none"
    /\ stop = "empty"
    /\ overdue = FALSE

mainVars == <<environ, args, mainPc, flagSet, env, panicMsg>>
serverVars == <<phase, exitCode, kvMap, mutex, reqs, lastSet, lockedSet, clock, listener,
                stop, overdue>>
storeVars == <<kvMap, mutex, reqs, lastSet, lockedSet, clock, listener, stop, overdue>>

InitResolve ==
    /\ call \in CallInputs
    /\ InitIdleMain
    /\ InitIdleServer

CallUseEnvOrDefaultIfNotSet ==
    /\ mainPc = "none"
    /\ call.outcome.kind = "pending"
    /\ call' = [call EXCEPT !.outcome = useEnvOrDefaultIfNotSet(call.envValue, call.defaultValue)]
    /\ UNCHANGED <<mainVars, serverVars>>

NextResolve == CallUseEnvOrDefaultIfNotSet

SpecResolve == InitResolve /\ [][NextResolve]_vars

(***************************************************************************)
(* SpecMain: main (service.go:53-75) from its first statement to the call  *)
(* of env.server(), over every environment and command line of the sets    *)
(* below.                                                                  *)
(***************************************************************************)
FlagNames == {"address", "shutdown-timeout", "enable-logging-middleware"}

\* os.Getenv: the variable's value, "" when it is unset
Environments ==
    [SERVER_ADDRESS : {"", "0.0.0.0:9090"},
     SHUTDOWN_TIMEOUT : {"", "1s"},
     ENABLE_LOGGING_MIDDLEWARE : {"", "true"}]

\* the command line: for each flag the value given, Nil when it is not given
CommandLines ==
    {a \in [FlagNames -> {Nil, String("127.0.0.1:7070"), Bool(TRUE), Bool(FALSE)}
                            \cup {Duration(n) : n \in 0..MaxDuration}] :
        /\ a["address"].type \in {"nil", "string"}
        /\ a["shutdown-timeout"].type \in {"nil", "time.Duration"}
        /\ a["enable-logging-middleware"].type \in {"nil", "bool"}}

InitMain ==
    /\ call = NoCall
    /\ environ \in Environments
    /\ args \in CommandLines
    /\ mainPc = "address"
    /\ flagSet = NoArgs
    /\ env = ZeroServerConfig
    /\ panicMsg = ""
    /\ phase = "Configuring"
    /\ exitCode = -1
    /\ kvMap = <<>>
    /\ mutex = 0
    /\ reqs = <<>>
    /\ lastSet = {}
    /\ lockedSet = {}
    /\ clock = 0
    /\ listener = "none"
    /\ stop = "empty"
    /\ overdue = FALSE

\* flag.String / flag.Duration / flag.Bool whose default is
\* useEnvOrDefaultIfNotSet(os.Getenv(envVar), defaultValue).(T): the call, the
\* type assertion on its result, and the registration of the flag; a panic in
\* either ends the process with status 2: main has no recover.
DefineFlag(name, envVar, defaultValue, T, nextPc) ==
    LET resolved == useEnvOrDefaultIfNotSet(String(environ[envVar]), defaultValue)
        asserted == IF resolved.kind = "panic" THEN resolved
                    ELSE TypeAssert(resolved.val, T)
    IN  /\ mainPc = name
        /\ call' = [envValue |-> String(environ[envVar]),
                    defaultValue |-> defaultValue, outcome |-> resolved]
        /\ IF asserted.kind = "panic"
           THEN /\ mainPc' = "panicked"
                /\ panicMsg' = asserted.msg
                /\ flagSet' = flagSet
                /\ phase' = "Terminated"
                /\ exitCode' = 2
           ELSE /\ mainPc' = nextPc
                /\ panicMsg' = panicMsg
                /\ flagSet' = [flagSet EXCEPT ![name] = asserted.val]
                /\ UNCHANGED <<phase, exitCode>>
        /\ UNCHANGED <<environ, args, env, storeVars>>

\* service.go:56
DefineAddressFlag ==
    DefineFlag("address", "SERVER_ADDRESS", String(DefaultServerAddress),
               "string", "shutdown-timeout")

\* service.go:57-58
DefineShutdownTimeoutFlag ==
    DefineFlag("shutdown-timeout", "SHUTDOWN_TIMEOUT", Duration(DefaultShutdownTimeout),
               "time.Duration", "enable-logging-middleware")

\* service.go:59
DefineLoggingMiddlewareFlag ==
    DefineFlag("enable-logging-middleware", "ENABLE_LOGGING_MIDDLEWARE", Bool(FALSE),
               "bool", "parse")

\* service.go:62: flag.Parse sets every flag given on the command line
FlagParse(registered, given) ==
    [f \in FlagNames |-> IF given[f].type = "nil" THEN registered[f] ELSE given[f]]

\* service.go:62-72: parse the command line and build the ServerConfig
ParseAndBuildConfig ==
    /\ mainPc = "parse"
    /\ flagSet' = FlagParse(flagSet, args)
    /\ env' = [ServiceName |-> "key-value-service-v1",
               ServerAddress |-> flagSet'["address"].s,
               ShutdownTimeout |-> flagSet'["shutdown-timeout"].d,
               EnableLoggingMiddleware |-> flagSet'["enable-logging-middleware"].b,
               ServiceVersion |-> version]
    /\ mainPc' = "server"
    /\ UNCHANGED <<call, environ, args, panicMsg, serverVars>>

\* service.go:74: main calls env.server(); Configuring is over
CallServer ==
    /\ mainPc = "server"
    /\ mainPc' = "serving"
    /\ phase' = "Serving"
    /\ UNCHANGED <<call, environ, args, flagSet, env, panicMsg, exitCode, storeVars>>

NextMain ==
    \/ DefineAddressFlag
    \/ DefineShutdownTimeoutFlag
    \/ DefineLoggingMiddlewareFlag
    \/ ParseAndBuildConfig
    \/ CallServer

SpecMain == InitMain /\ [][NextMain]_vars

(***************************************************************************)
(* SpecConfig: the resolution step wherever it is called, by a direct call *)
(* (the behaviours of SpecResolve) or by main (those of SpecMain).         *)
(***************************************************************************)
InitConfig == InitResolve \/ InitMain

NextConfig == NextResolve \/ NextMain

SpecConfig == InitConfig /\ [][NextConfig]_vars

(***************************************************************************)
(* Claims about configuration resolution.                                  *)
(***************************************************************************)
\* time.ParseDuration and strconv.ParseBool on the strings of Environments
ParseDuration(str) == CASE str = "1s" -> 1 [] str = "10s" -> 10 [] OTHER -> 0
ParseBool(str) == str = "true"

MainEnded == mainPc \in {"panicked", "serving"}

\* C8 (as claimed): with a flag not given and its environment variable set to a
\* non-empty value, main reaches the call of server() and the setting in the
\* ServerConfig is the environment variable's value; this for each of the
\* three settings.
C8_EnvironmentBeatsDefault ==
    MainEnded =>
        /\ (args["address"] = Nil /\ environ.SERVER_ADDRESS # "")
              => (phase = "Serving" /\ env.ServerAddress = environ.SERVER_ADDRESS)
        /\ (args["shutdown-timeout"] = Nil /\ environ.SHUTDOWN_TIMEOUT # "")
              => (phase = "Serving"
                  /\ env.ShutdownTimeout = ParseDuration(environ.SHUTDOWN_TIMEOUT))
        /\ (args["enable-logging-middleware"] = Nil
                /\ environ.ENABLE_LOGGING_MIDDLEWARE # "")
              => (phase = "Serving"
                  /\ env.EnableLoggingMiddleware
                        = ParseBool(environ.ENABLE_LOGGING_MIDDLEWARE))

\* C9: useEnvOrDefaultIfNotSet returns the default for a nil, empty-string or
\* zero-duration envValue and returns envValue itself for a non-empty string
\* or a non-zero duration; so an unset SHUTDOWN_TIMEOUT ("" from os.Getenv)
\* with the 10-second default resolves to 10 seconds.
C9_ResolveEnvOrDefault ==
    call.outcome.kind # "pending" =>
        /\ (\/ call.envValue.type = "nil"
            \/ (call.envValue.type = "string" /\ call.envValue.s = "")
            \/ (call.envValue.type = "time.Duration" /\ call.envValue.d = 0))
              => (call.outcome.kind = "return" /\ call.outcome.val = call.defaultValue)
        /\ (\/ (call.envValue.type = "string" /\ call.envValue.s # "")
            \/ (call.envValue.type = "time.Duration" /\ call.envValue.d # 0))
              => (call.outcome.kind = "return" /\ call.outcome.val = call.envValue)
        /\ (call.envValue = String("")
                /\ call.defaultValue = Duration(DefaultShutdownTimeout))
              => call.outcome.val.d = 10

\* C9 witness: the call main makes for an unset SHUTDOWN_TIMEOUT has returned
\* the 10-second default.
C9_Witness ==
    /\ call.envValue = String("")
    /\ call.defaultValue = Duration(DefaultShutdownTimeout)
    /\ call.outcome = Return(Duration(10))

\* C10: a value of a type other than string or time.Duration (and not nil)
\* makes the resolution step panic with "unexpected type <T>" and return
\* nothing; and a panic in a resolution step of main ends the process during
\* Configuring: no ServerConfig is built, Serving is not entered, no request
\* is handled.
C10_UnexpectedTypePanics ==
    /\ (call.outcome.kind # "pending"
          /\ call.envValue.type \notin {"nil", "string", "time.Duration"})
        => /\ call.outcome.kind = "panic"
           /\ call.outcome.msg = "unexpected type " \o call.envValue.type
           /\ call.outcome.val = Nil
    /\ (mainPc # "none" /\ (call.outcome.kind = "panic" \/ panicMsg # ""))
        => /\ mainPc = "panicked"
           /\ phase = "Terminated"
           /\ exitCode = 2
           /\ env = ZeroServerConfig
           /\ reqs = <<>>
    /\ phase = "Serving" => (panicMsg = "" /\ call.outcome.kind # "panic")

\* C10 witness: the call of the test, with a []int, has panicked with
\* "unexpected type []int".
C10_Witness ==
    /\ call.envValue = IntSlice
    /\ call.outcome.kind = "panic"
    /\ call.outcome.msg = "unexpected type []int"

(***************************************************************************)
(* Spec: ServerConfig.server (service.go:98-154) and the handlers.         *)
(* Requests, bodies and responses.                                         *)
(***************************************************************************)
Keys == {"a", "b"}
Values == {"1", "2"}

\* net/http status codes the handlers use
StatusOK == 200
StatusAccepted == 202
StatusBadRequest == 400
StatusNotFound == 404

\* A request body: a JSON object with some of the members "key" and "value",
\* a JSON string followed by more text (part_000:251), a JSON text cut short,
\* or nothing at all.
ObjectBody(hasKey, key, hasValue, value) ==
    [kind |-> "object", hasKey |-> hasKey, key |-> key,
     hasValue |-> hasValue, value |-> value]
StringBody == [kind |-> "string", hasKey |-> FALSE, key |-> "",
               hasValue |-> FALSE, value |-> ""]
TruncatedBody == [kind |-> "truncated", hasKey |-> FALSE, key |-> "",
                  hasValue |-> FALSE, value |-> ""]
EmptyBody == [kind |-> "empty", hasKey |-> FALSE, key |-> "",
              hasValue |-> FALSE, value |-> ""]

\* json.NewDecoder(r.Body).Decode(&payload) into a SetRequest or GetRequest:
\* a member that is absent leaves the zero value "", a member the struct does
\* not have is ignored, anything but an object is an error.
Decode(body, T) ==
    IF body.kind = "object"
    THEN [err |-> "",
          key |-> IF body.hasKey THEN body.key ELSE "",
          value |-> IF T = "SetRequest" /\ body.hasValue THEN body.value ELSE ""]
    ELSE [err |-> CASE body.kind = "string" ->
                        "json: cannot unmarshal string into Go value of type main." \o T
                    [] body.kind = "truncated" -> "unexpected EOF"
                    [] OTHER -> "EOF",
          key |-> "", value |-> ""]

\* json.NewEncoder(w).Encode(GetResponse{Value: value})
Encode(value) == "{\"value\":\"" \o value \o "\"}\n"

\* The http.ResponseWriter of a request: status 0 until the header is written.
NewResponse == [status |-> 0, contentType |-> "", body |-> ""]
HeaderSet(w, contentType) ==
    IF w.status = 0 THEN [w EXCEPT !.contentType = contentType] ELSE w
WriteHeader(w, code) ==
    IF w.status = 0 THEN [w EXCEPT !.status = code] ELSE w
\* the first Write sends the header with status 200 if none was written
Write(w, text) ==
    LET h == WriteHeader(w, StatusOK)
    IN  [h EXCEPT !.body = h.body \o text]
\* http.Error
Error(w, msg, code) ==
    Write(WriteHeader(HeaderSet(w, "text/plain; charset=utf-8"), code), msg \o "\n")
\* fmt.Fprintln(w, code)
FprintlnAfterWriteHeader(w, code) == Write(WriteHeader(w, code), ToString(code) \o "\n")
Fprintln(w, code) == Write(w, ToString(code) \o "\n")

\* kv.kvMap[key] = value, and value, ok := kv.kvMap[key], on a map value m
MapAssignKeepingFirst(m, key, value) ==
    IF key \in DOMAIN m THEN m
    ELSE [k \in DOMAIN m \cup {key} |-> IF k = key THEN value ELSE m[k]]
MapAssignDroppingOthers(m, key, value) == [k \in {key} |-> value]
MapAssign(m, key, value) ==
    [k \in DOMAIN m \cup {key} |-> IF k = key THEN value ELSE m[k]]
MapIndexAlwaysOk(m, key) ==
    IF key \in DOMAIN m THEN [value |-> m[key], ok |-> TRUE]
    ELSE [value |-> "", ok |-> TRUE]
MapIndex(m, key) ==
    IF key \in DOMAIN m THEN [value |-> m[key], ok |-> TRUE]
    ELSE [value |-> "", ok |-> FALSE]
EmptyMap == [k \in {} |-> ""]

Requests == 1..MaxRequests

\* the requests a client sends: the path and the body
RequestInputs ==
    [path : {"/set"},
     body : {ObjectBody(TRUE, k, TRUE, v) : k \in Keys, v \in Values}
                \cup {StringBody}]
      \cup [path : {"/get"},
            body : {ObjectBody(TRUE, k, FALSE, "") : k \in Keys} \cup {TruncatedBody}]
      \cup [path : {"/healthz", "/readyz"}, body : {EmptyBody}]

\* a request goroutine that does not exist (yet, or any more)
IdleRequest ==
    [pc |-> "idle", path |-> "", body |-> EmptyBody, key |-> "", value |-> "",
     ok |-> FALSE, snap |-> EmptyMap, w |-> NewResponse,
     logged |-> FALSE, calls |-> 0, locked |-> FALSE, expect |-> {},
     atLock |-> {}, passed |-> FALSE]

\* the configuration main hands to server() when nothing is set:
\* the defaults of service.go:56-59
DefaultServerConfig ==
    [ServiceName |-> "key-value-service-v1", ServerAddress |-> DefaultServerAddress,
     ShutdownTimeout |-> DefaultShutdownTimeout, EnableLoggingMiddleware |-> FALSE,
     ServiceVersion |-> version]

\* the server is listening: the store of service.go:99-101 is empty, its
\* mutex free, and no request has arrived
Init ==
    /\ call = NoCall
    /\ environ = NoEnviron
    /\ args = NoArgs
    /\ mainPc = "serving"
    /\ flagSet = NoArgs
    /\ env = DefaultServerConfig
    /\ panicMsg = ""
    /\ phase = "Serving"
    /\ exitCode = -1
    /\ kvMap = EmptyMap
    /\ mutex = 0
    /\ reqs = [i \in Requests |-> IdleRequest]
    /\ lastSet = {}
    /\ lockedSet = {}
    /\ clock = 0
    /\ listener = "bound"
    /\ stop = "empty"
    /\ overdue = FALSE

Alive == phase \in {"Serving", "Draining"}
InFlight(i) == reqs[i].pc \notin {"idle", "done"}
configVars == <<call, environ, args, mainPc, flagSet, env, panicMsg>>
lifeVars == <<phase, exitCode, clock, listener, stop, overdue>>

(***************************************************************************)
(* The request goroutines.                                                 *)
(***************************************************************************)
\* service.go:110-121 and 214-229: the mux dispatches an accepted request to
\* the handler of its path, through MiddlewareLogRequest when it is enabled.
\* The goroutine of a request that was answered is gone; its place in reqs
\* is free for the next request.
\* service.go:103-108: the first statement of the handler registered for a path
Endpoint(path) == IF path \in {"/set", "/get"} THEN "decode" ELSE "probe"

\* service.go:110-115: handler(h) is MiddlewareLogRequest(h) when the
\* middleware is enabled, h itself when it is not
Accept(i, inputs) ==
    /\ phase = "Serving"
    /\ listener = "bound"
    /\ ~InFlight(i)
    /\ \A j \in Requests : j < i => InFlight(j)
    /\ \E in \in inputs :
          reqs' = [reqs EXCEPT ![i] =
                      [IdleRequest EXCEPT
                          !.pc = IF env.EnableLoggingMiddleware
                                 THEN "middleware" ELSE Endpoint(in.path),
                          !.path = in.path,
                          !.body = in.body,
                          !.calls = IF env.EnableLoggingMiddleware THEN 0 ELSE 1]]
    /\ UNCHANGED <<configVars, lifeVars, kvMap, mutex, lastSet, lockedSet>>

NewRequest(i) == Accept(i, RequestInputs)

\* service.go:214-229: log the request line and the headers, then next(w, r)
MiddlewareLogRequestReadingBody(i) ==
    /\ Alive
    /\ reqs[i].pc = "middleware"
    /\ reqs' = [reqs EXCEPT ![i].logged = TRUE,
                            ![i].body = EmptyBody,
                            ![i].calls = @ + 1,
                            ![i].pc = Endpoint(reqs[i].path)]
    /\ UNCHANGED <<configVars, lifeVars, kvMap, mutex, lastSet, lockedSet>>

MiddlewareLogRequest(i) ==
    /\ Alive
    /\ reqs[i].pc = "middleware"
    /\ reqs' = [reqs EXCEPT ![i].logged = TRUE,
                            ![i].calls = @ + 1,
                            ![i].pc = Endpoint(reqs[i].path)]
    /\ UNCHANGED <<configVars, lifeVars, kvMap, mutex, lastSet, lockedSet>>

\* service.go:157-168: LivenessProbeHandler and ReadinessProbeHandler
ProbeHandlerUnderLock(i) ==
    /\ Alive
    /\ reqs[i].pc = "probe"
    /\ mutex = 0
    /\ reqs' = [reqs EXCEPT ![i].w = WriteHeader(@, StatusOK), ![i].pc = "done"]
    /\ UNCHANGED <<configVars, lifeVars, kvMap, mutex, lastSet, lockedSet>>

ProbeHandler(i) ==
    /\ Alive
    /\ reqs[i].pc = "probe"
    /\ reqs' = [reqs EXCEPT ![i].w = WriteHeader(@, StatusOK), ![i].pc = "done"]
    /\ UNCHANGED <<configVars, lifeVars, kvMap, mutex, lastSet, lockedSet>>

\* service.go:172-179 (SetHandler) and 191-198 (GetHandler): set the content
\* type, decode the body; on an error answer 400 with its text and return
DecodeStepIgnoringError(i) ==
    LET r == reqs[i]
        T == IF r.path = "/set" THEN "SetRequest" ELSE "GetRequest"
        w0 == HeaderSet(r.w, IF r.path = "/set" THEN "text/plain" ELSE "application/json")
        payload == Decode(r.body, T)
    IN  /\ Alive
        /\ r.pc = "decode"
        /\ reqs' = [reqs EXCEPT ![i] =
                      [r EXCEPT !.w = w0, !.key = payload.key,
                                !.value = payload.value, !.pc = "lock"]]
        /\ UNCHANGED <<configVars, lifeVars, kvMap, mutex, lastSet, lockedSet>>

DecodeStep(i) ==
    LET r == reqs[i]
        T == IF r.path = "/set" THEN "SetRequest" ELSE "GetRequest"
        w0 == HeaderSet(r.w, IF r.path = "/set" THEN "text/plain" ELSE "application/json")
        payload == Decode(r.body, T)
    IN  /\ Alive
        /\ r.pc = "decode"
        /\ IF payload.err # ""
           THEN reqs' = [reqs EXCEPT ![i] =
                          [r EXCEPT !.w = Error(w0, payload.err, StatusBadRequest),
                                    !.pc = "done"]]
           ELSE reqs' = [reqs EXCEPT ![i] =
                          [r EXCEPT !.w = w0, !.key = payload.key,
                                    !.value = payload.value, !.pc = "lock"]]
        /\ UNCHANGED <<configVars, lifeVars, kvMap, mutex, lastSet, lockedSet>>

\* History kept as request i passes kv.Lock(): a /set becomes the /set that
\* last acquired the mutex for its key, and marks the /get requests of that
\* key that were already waiting for the mutex as passed; a /get notes the
\* value of the /set that last acquired the mutex for its key.
Acquired(i) ==
    [k \in Requests |->
        IF k = i
        THEN [reqs[i] EXCEPT !.pc = "map", !.locked = TRUE,
                             !.atLock = IF reqs[i].path = "/get"
                                        THEN {p[2] : p \in {q \in lockedSet :
                                                              q[1] = reqs[i].key}}
                                        ELSE {}]
        ELSE IF /\ reqs[i].path = "/set"
                /\ reqs[k].pc = "lock"
                /\ reqs[k].path = "/get"
                /\ reqs[k].key = reqs[i].key
        THEN [reqs[k] EXCEPT !.passed = TRUE]
        ELSE reqs[k]]
AcquiredBy(i) ==
    IF reqs[i].path = "/set"
    THEN {p \in lockedSet : p[1] # reqs[i].key} \cup {<<reqs[i].key, reqs[i].value>>}
    ELSE lockedSet

\* service.go:181 and 200: kv.Lock() returns once the mutex is free
LockWithoutWaiting(i) ==
    /\ Alive
    /\ reqs[i].pc = "lock"
    /\ mutex' = i
    /\ reqs' = Acquired(i)
    /\ lockedSet' = AcquiredBy(i)
    /\ UNCHANGED <<configVars, lifeVars, kvMap, lastSet>>

LockOnlyToAssign(i) ==
    /\ Alive
    /\ reqs[i].pc = "lock"
    /\ IF reqs[i].path = "/set" THEN mutex = 0 /\ mutex' = i ELSE mutex' = mutex
    /\ reqs' = Acquired(i)
    /\ lockedSet' = AcquiredBy(i)
    /\ UNCHANGED <<configVars, lifeVars, kvMap, lastSet>>

Lock(i) ==
    /\ Alive
    /\ reqs[i].pc = "lock"
    /\ mutex = 0
    /\ mutex' = i
    /\ reqs' = Acquired(i)
    /\ lockedSet' = AcquiredBy(i)
    /\ UNCHANGED <<configVars, lifeVars, kvMap, lastSet>>

\* service.go:184 and 203: the map operation starts by reading the table; a Go
\* map is not safe for concurrent use, the operation is not one atomic step
MapOperationBegins(i) ==
    /\ Alive
    /\ reqs[i].pc = "map"
    /\ reqs' = [reqs EXCEPT ![i].snap = kvMap, ![i].pc = "mapping"]
    /\ UNCHANGED <<configVars, lifeVars, kvMap, mutex, lastSet, lockedSet>>

\* service.go:184: kv.kvMap[payload.Key] = payload.Value
SetMapAssign(i) ==
    LET r == reqs[i]
    IN  /\ Alive
        /\ r.pc = "mapping"
        /\ r.path = "/set"
        /\ kvMap' = MapAssign(r.snap, r.key, r.value)
        /\ lastSet' = {p \in lastSet : p[1] # r.key} \cup {<<r.key, r.value>>}
        /\ reqs' = [reqs EXCEPT ![i].snap = EmptyMap, ![i].pc = "respond"]
        /\ UNCHANGED <<configVars, lifeVars, mutex, lockedSet>>

\* service.go:203: value, ok := kv.kvMap[payload.Key]
GetMapIndexInserting(i) ==
    LET r == reqs[i]
        found == MapIndex(r.snap, r.key)
    IN  /\ Alive
        /\ r.pc = "mapping"
        /\ r.path = "/get"
        /\ reqs' = [reqs EXCEPT ![i].snap = EmptyMap, ![i].pc = "respond",
                                ![i].value = found.value, ![i].ok = found.ok,
                                ![i].expect = {p[2] : p \in {q \in lastSet : q[1] = r.key}}]
        /\ kvMap' = IF found.ok THEN kvMap ELSE MapAssign(r.snap, r.key, "")
        /\ UNCHANGED <<configVars, lifeVars, mutex, lastSet, lockedSet>>

GetMapIndex(i) ==
    LET r == reqs[i]
        found == MapIndex(r.snap, r.key)
    IN  /\ Alive
        /\ r.pc = "mapping"
        /\ r.path = "/get"
        /\ reqs' = [reqs EXCEPT ![i].snap = EmptyMap, ![i].pc = "respond",
                                ![i].value = found.value, ![i].ok = found.ok,
                                ![i].expect = {p[2] : p \in {q \in lastSet : q[1] = r.key}}]
        /\ UNCHANGED <<configVars, lifeVars, kvMap, mutex, lastSet, lockedSet>>

\* service.go:186: fmt.Fprintln(w, http.StatusAccepted)
SetRespond(i) ==
    /\ Alive
    /\ reqs[i].pc = "respond"
    /\ reqs[i].path = "/set"
    /\ reqs' = [reqs EXCEPT ![i].w = Fprintln(@, StatusAccepted), ![i].pc = "unlock"]
    /\ UNCHANGED <<configVars, lifeVars, kvMap, mutex, lastSet, lockedSet>>

\* service.go:204-210: "Key not found" with 404, or the encoded GetResponse
GetRespondNotFoundKeepsLock(i) ==
    LET r == reqs[i]
    IN  /\ Alive
        /\ r.pc = "respond"
        /\ r.path = "/get"
        /\ reqs' = [reqs EXCEPT ![i].w = IF ~r.ok
                                         THEN Error(@, "Key not found", StatusNotFound)
                                         ELSE Write(@, Encode(r.value)),
                                ![i].pc = IF ~r.ok THEN "done" ELSE "unlock"]
        /\ UNCHANGED <<configVars, lifeVars, kvMap, mutex, lastSet, lockedSet>>

GetRespond(i) ==
    LET r == reqs[i]
    IN  /\ Alive
        /\ r.pc = "respond"
        /\ r.path = "/get"
        /\ reqs' = [reqs EXCEPT ![i].w = IF ~r.ok
                                         THEN Error(@, "Key not found", StatusNotFound)
                                         ELSE Write(@, Encode(r.value)),
                                ![i].pc = "unlock"]
        /\ UNCHANGED <<configVars, lifeVars, kvMap, mutex, lastSet, lockedSet>>

\* service.go:182 and 201: the deferred kv.Unlock() runs as the handler returns
UnlockForgotten(i) ==
    /\ Alive
    /\ reqs[i].pc = "unlock"
    /\ mutex' = mutex
    /\ reqs' = [reqs EXCEPT ![i].pc = "done", ![i].passed = FALSE]
    /\ UNCHANGED <<configVars, lifeVars, kvMap, lastSet, lockedSet>>

Unlock(i) ==
    /\ Alive
    /\ reqs[i].pc = "unlock"
    /\ mutex' = 0
    /\ reqs' = [reqs EXCEPT ![i].pc = "done", ![i].passed = FALSE]
    /\ UNCHANGED <<configVars, lifeVars, kvMap, lastSet, lockedSet>>

Handlers ==
    \E i \in Requests :
        \/ NewRequest(i)
        \/ ProbeHandler(i)
        \/ DecodeStep(i)
        \/ Lock(i)
        \/ MapOperationBegins(i)
        \/ SetMapAssign(i)
        \/ GetMapIndex(i)
        \/ SetRespond(i)
        \/ GetRespond(i)
        \/ Unlock(i)

Next == Handlers

Spec == Init /\ [][Next]_vars

(***************************************************************************)
(* SpecFair: the handlers under the scheduling the Go runtime gives them.  *)
(* A goroutine that can take its next step is eventually run; a goroutine  *)
(* blocked in kv.Lock() gets the mutex if it is released again and again:  *)
(* sync.Mutex hands a waiter of more than a millisecond the mutex directly *)
(* on the next Unlock (its starvation mode). A client need not send any    *)
(* request.                                                                *)
(***************************************************************************)
FairRequests == 1..MaxFairRequests

\* the requests sent in these runs: one of each handler and each return path
FairInputs ==
    {in \in RequestInputs :
        \/ in.path = "/healthz"
        \/ in.path = "/set" /\ in.body = ObjectBody(TRUE, "a", TRUE, "1")
        \/ in.path = "/get" /\ in.body \in {ObjectBody(TRUE, "a", FALSE, ""), TruncatedBody}}

NewFairRequest(i) == Accept(i, FairInputs)

\* the steps of request i that wait for nothing
Run(i) ==
    \/ ProbeHandler(i)
    \/ DecodeStep(i)
    \/ MapOperationBegins(i)
    \/ SetMapAssign(i)
    \/ GetMapIndex(i)
    \/ SetRespond(i)
    \/ GetRespond(i)
    \/ Unlock(i)

NextFair == \E i \in FairRequests : NewFairRequest(i) \/ Lock(i) \/ Run(i)

Fairness == \A i \in FairRequests : WF_vars(Run(i)) /\ SF_vars(Lock(i))

SpecFair == Init /\ [][NextFair]_vars /\ Fairness

(***************************************************************************)
(* SpecLifecycle: server() from its first statement to the end of the      *)
(* process: the listener, the signal, the drain and its deadline, with     *)
(* the handlers running meanwhile.                                         *)
(***************************************************************************)
\* the configurations main can hand to server(): --enable-logging-middleware
\* given or not, --shutdown-timeout=0s or 1s
ServerConfigs ==
    [ServiceName : {"key-value-service-v1"}, ServerAddress : {DefaultServerAddress},
     ShutdownTimeout : {0, 1}, EnableLoggingMiddleware : BOOLEAN,
     ServiceVersion : {version}]

InitLifecycle ==
    /\ call = NoCall
    /\ environ = NoEnviron
    /\ args = NoArgs
    /\ mainPc = "server"
    /\ flagSet = NoArgs
    /\ env \in ServerConfigs
    /\ panicMsg = ""
    /\ phase = "Configuring"
    /\ exitCode = -1
    /\ kvMap = EmptyMap
    /\ mutex = 0
    /\ reqs = [i \in Requests |-> IdleRequest]
    /\ lastSet = {}
    /\ lockedSet = {}
    /\ clock = 0
    /\ listener = "none"
    /\ stop = "empty"
    /\ overdue = FALSE

\* what main leaves alone once it is in server()
settingVars == <<call, environ, args, flagSet, env, panicMsg>>

\* service.go:133-138: the goroutine binds the listener and serves, or the
\* bind fails and log.Fatalf ends the process with status 1; after Shutdown
\* was called ListenAndServe returns http.ErrServerClosed, which is not fatal
ListenAndServeFatalOnServerClosed ==
    /\ listener = "none"
    /\ \/ /\ phase = "Serving"
          /\ listener' = "bound"
          /\ UNCHANGED <<phase, exitCode>>
       \/ /\ phase = "Serving"
          /\ listener' = "failed"
          /\ phase' = "Terminated"
          /\ exitCode' = 1
       \/ /\ phase = "Draining"
          /\ listener' = "closed"
          /\ phase' = "Terminated"
          /\ exitCode' = 1
    /\ UNCHANGED <<settingVars, mainPc, kvMap, mutex, reqs, lastSet, lockedSet, clock, stop, overdue>>

ListenAndServe ==
    /\ listener = "none"
    /\ \/ /\ phase = "Serving"
          /\ listener' = "bound"
          /\ UNCHANGED <<phase, exitCode>>
       \/ /\ phase = "Serving"
          /\ listener' = "failed"
          /\ phase' = "Terminated"
          /\ exitCode' = 1
       \/ /\ phase = "Draining"
          /\ listener' = "closed"
          /\ UNCHANGED <<phase, exitCode>>
    /\ UNCHANGED <<settingVars, mainPc, kvMap, mutex, reqs, lastSet, lockedSet, clock, stop, overdue>>

\* service.go:141-142: SIGTERM or os.Interrupt is delivered while main waits;
\* signal.Notify puts it in the channel stop, whose buffer holds one signal
Signal ==
    /\ phase = "Serving"
    /\ stop = "empty"
    /\ stop' = "queued"
    /\ UNCHANGED <<settingVars, mainPc, phase, exitCode, kvMap, mutex, reqs, lastSet, lockedSet,
                   clock, listener, overdue>>

\* service.go:143-149: main receives from stop and calls server.Shutdown with
\* a context of env.ShutdownTimeout: the listener closes; a context of no
\* time at all has expired as it is made
ShutdownWithoutSignal ==
    /\ mainPc = "serving"
    /\ phase = "Serving"
    /\ mainPc' = "shutdown"
    /\ phase' = "Draining"
    /\ clock' = 0
    /\ listener' = IF listener = "bound" THEN "closed" ELSE listener
    /\ overdue' = (env.ShutdownTimeout = 0 /\ \E i \in Requests : InFlight(i))
    /\ UNCHANGED <<settingVars, exitCode, kvMap, mutex, reqs, lastSet, lockedSet, stop>>

Shutdown ==
    /\ mainPc = "serving"
    /\ phase = "Serving"
    /\ stop = "queued"
    /\ stop' = "received"
    /\ mainPc' = "shutdown"
    /\ phase' = "Draining"
    /\ clock' = 0
    /\ listener' = IF listener = "bound" THEN "closed" ELSE listener
    /\ overdue' = (env.ShutdownTimeout = 0 /\ \E i \in Requests : InFlight(i))
    /\ UNCHANGED <<settingVars, exitCode, kvMap, mutex, reqs, lastSet, lockedSet>>

\* a second passes while Shutdown waits; the context's deadline passes when
\* env.ShutdownTimeout seconds have
Tick ==
    /\ phase = "Draining"
    /\ clock < env.ShutdownTimeout
    /\ clock' = clock + 1
    /\ overdue' = (clock' = env.ShutdownTimeout /\ \E i \in Requests : InFlight(i))
    /\ UNCHANGED <<settingVars, mainPc, phase, exitCode, listener, kvMap, mutex, reqs,
                   lastSet, lockedSet, stop>>

\* service.go:149-153: Shutdown looks for a connection that is not idle and
\* finds none; it returns nil, server() and main return
ShutdownReturns ==
    /\ mainPc = "shutdown"
    /\ phase = "Draining"
    /\ \A i \in Requests : ~InFlight(i)
    /\ mainPc' = "returned"
    /\ phase' = "Terminated"
    /\ exitCode' = 0
    /\ UNCHANGED <<settingVars, clock, listener, kvMap, mutex, reqs, lastSet, lockedSet, stop, overdue>>

\* service.go:149: Shutdown finds a request in flight and goes to sleep until
\* its poll timer fires or the context expires
ShutdownFindsRequest ==
    /\ mainPc = "shutdown"
    /\ phase = "Draining"
    /\ \E i \in Requests : InFlight(i)
    /\ mainPc' = "waiting"
    /\ UNCHANGED <<settingVars, phase, exitCode, clock, listener, kvMap, mutex, reqs,
                   lastSet, lockedSet, stop, overdue>>

\* service.go:149: the poll timer of Shutdown fires, it looks again
ShutdownPolls ==
    /\ mainPc = "waiting"
    /\ phase = "Draining"
    /\ mainPc' = "shutdown"
    /\ UNCHANGED <<settingVars, phase, exitCode, clock, listener, kvMap, mutex, reqs,
                   lastSet, lockedSet, stop, overdue>>

\* service.go:149-151: the context has expired while Shutdown sleeps, Shutdown
\* returns the context's error and log.Fatalf ends the process with status 1
ShutdownTimesOutEarly ==
    /\ mainPc = "waiting"
    /\ phase = "Draining"
    /\ mainPc' = "fatal"
    /\ phase' = "Terminated"
    /\ exitCode' = 1
    /\ UNCHANGED <<settingVars, clock, listener, kvMap, mutex, reqs, lastSet, lockedSet, stop, overdue>>

ShutdownTimesOut ==
    /\ mainPc = "waiting"
    /\ phase = "Draining"
    /\ clock >= env.ShutdownTimeout
    /\ mainPc' = "fatal"
    /\ phase' = "Terminated"
    /\ exitCode' = 1
    /\ UNCHANGED <<settingVars, clock, listener, kvMap, mutex, reqs, lastSet, lockedSet, stop, overdue>>

DrainHandlers ==
    \E i \in 1..MaxDrainRequests :
        \/ NewRequest(i)
        \/ MiddlewareLogRequest(i)
        \/ ProbeHandler(i)
        \/ DecodeStep(i)
        \/ Lock(i)
        \/ MapOperationBegins(i)
        \/ SetMapAssign(i)
        \/ GetMapIndex(i)
        \/ SetRespond(i)
        \/ GetRespond(i)
        \/ Unlock(i)

NextLifecycle ==
    \/ CallServer
    \/ ListenAndServe
    \/ Signal
    \/ Shutdown
    \/ Tick
    \/ ShutdownReturns
    \/ ShutdownFindsRequest
    \/ ShutdownPolls
    \/ ShutdownTimesOut
    \/ DrainHandlers

SpecLifecycle == InitLifecycle /\ [][NextLifecycle]_vars

(***************************************************************************)
(* Claims about the store and the Set and Get handlers.                    *)
(***************************************************************************)
IsSet(i) == reqs[i].path = "/set"
IsGet(i) == reqs[i].path = "/get"
Malformed(i) == reqs[i].body.kind # "object"
\* the handler has decoded the body, used the map and written its answer
Answered(i) == ~Malformed(i) /\ reqs[i].pc \in {"unlock", "done"}
\* the store holds exactly the last value assigned for every key assigned
StoreIsLastSet ==
    /\ DOMAIN kvMap = {p[1] : p \in lastSet}
    /\ \A p \in lastSet : kvMap[p[1]] = p[2]

\* C1: a /get of k answers 200 with the value of the last /set of k that was
\* done before it (so v1 after a set of (k, v1), v2 after a further set of
\* (k, v2)), whatever was set for other keys; a decoded /set of (k, v) has
\* made v the store's value for k by the time it answers.
C1_LastWriterWins ==
    /\ StoreIsLastSet
    /\ \A i \in Requests :
          /\ (IsSet(i) /\ ~Malformed(i) /\ reqs[i].pc \in {"respond", "unlock"})
                => (/\ reqs[i].body.key \in DOMAIN kvMap
                    /\ kvMap[reqs[i].body.key] = reqs[i].body.value)
          /\ (IsGet(i) /\ Answered(i))
                => \A v \in reqs[i].expect :
                      /\ reqs[i].w.status = StatusOK
                      /\ reqs[i].w.body = Encode(v)

\* C1 witness: "a" was set to "1", then to "2", and a /get of "a" has
\* answered 200 with "2".
C1_Witness ==
    /\ "a" \in DOMAIN kvMap
    /\ kvMap["a"] = "2"
    /\ \E i, j \in Requests :
          /\ IsSet(i) /\ reqs[i].pc = "done" /\ reqs[i].key = "a" /\ reqs[i].value = "1"
          /\ IsGet(j) /\ reqs[j].pc = "done" /\ reqs[j].key = "a"
          /\ reqs[j].w.status = 200
          /\ reqs[j].w.body = "{\"value\":\"2\"}\n"

\* C2: a /set whose body does not decode answers 400 with the decode error's
\* text, never acquires the mutex, and its steps leave the map (and so the
\* answer to any later /get) unchanged.
C2_DecodeFailureIsolation ==
    [][\A i \in Requests :
          /\ (IsSet(i) /\ Malformed(i) /\ reqs'[i] # reqs[i] /\ reqs[i].pc # "done")
                => (/\ kvMap' = kvMap
                    /\ mutex' = mutex
                    /\ lastSet' = lastSet
                    /\ reqs'[i].pc = "done"
                    /\ ~reqs'[i].locked
                    /\ reqs'[i].w.status = StatusBadRequest
                    /\ reqs'[i].w.body = Decode(reqs[i].body, "SetRequest").err \o "\n"
                    /\ reqs[i].body = StringBody
                          => reqs'[i].w.body =
                                "json: cannot unmarshal string into Go value of type main.SetRequest\n")
          /\ (reqs'[i].path = "/set" /\ reqs'[i].body.kind # "object")
                => (reqs'[i].pc \in {"decode", "done"} /\ mutex' # i)]_vars

\* C2 witness: a malformed /set was answered 400 on a store that holds a key.
C2_Witness ==
    /\ DOMAIN kvMap # {}
    /\ \E i \in Requests :
          /\ IsSet(i) /\ Malformed(i) /\ reqs[i].pc = "done"
          /\ reqs[i].w.status = 400

\* C3: a /get of a key no /set has assigned answers 404 with "Key not found",
\* not a value, and the map gets no entry but those a /set assigned.
C3_AbsentKeyNotFound ==
    /\ \A i \in Requests :
          (IsGet(i) /\ Answered(i) /\ reqs[i].expect = {})
            => (/\ reqs[i].w.status = StatusNotFound
                /\ reqs[i].w.body = "Key not found\n")
    /\ DOMAIN kvMap \subseteq {p[1] : p \in lastSet}

\* C3 witness: a /get of "a" was answered 404 while only "b" is in the store.
C3_Witness ==
    /\ DOMAIN kvMap = {"b"}
    /\ \E i \in Requests :
          /\ IsGet(i) /\ reqs[i].pc = "done" /\ reqs[i].key = "a"
          /\ reqs[i].w.status = 404

\* C4 (as claimed): a /set whose body decodes is answered with status 202 and
\* the body "202\n".
C4_SetAnswersAccepted ==
    \A i \in Requests :
        (IsSet(i) /\ Answered(i))
          => (reqs[i].w.status = StatusAccepted /\ reqs[i].w.body = "202\n")

\* C4 (amended): a /set whose body decodes is answered with the body "202\n",
\* the text of the status code Accepted, and with status 200: the handler
\* writes no header, so the first Write sends 200.
C4_SetAnswersOKWithAcceptedText ==
    \A i \in Requests :
        (IsSet(i) /\ Answered(i))
          => (/\ reqs[i].w.status = StatusOK
              /\ reqs[i].w.body = ToString(StatusAccepted) \o "\n"
              /\ reqs[i].w.body = "202\n")

\* C4 witness: a /set of ("a", "1") was answered 200 with "202\n".
C4_Witness ==
    \E i \in Requests :
        /\ IsSet(i) /\ reqs[i].pc = "done" /\ reqs[i].body.key = "a"
        /\ reqs[i].w.status = 200
        /\ reqs[i].w.body = "202\n"

\* C5: SetHandler with a valid body leaves the store equal to the store before
\* with the request's key mapped to the request's value, and writes "202\n"
\* to a response whose recorded status is 200.
C5_SetHandlerEffect ==
    [][\A i \in Requests :
          /\ (IsSet(i) /\ reqs[i].pc = "mapping" /\ reqs'[i].pc = "respond")
                => (/\ DOMAIN kvMap' = DOMAIN kvMap \cup {reqs[i].body.key}
                    /\ kvMap'[reqs[i].body.key] = reqs[i].body.value
                    /\ \A k \in DOMAIN kvMap :
                          k # reqs[i].body.key => kvMap'[k] = kvMap[k])
          /\ (IsSet(i) /\ reqs[i].pc = "respond" /\ reqs'[i].pc = "unlock")
                => (/\ reqs'[i].w.body = "202\n"
                    /\ reqs'[i].w.status = StatusOK
                    /\ kvMap' = kvMap)]_vars

\* C5 witness: a /set of ("a", "2") on a store that held "a" and "b" has
\* answered; "a" is now "2" and "b" is still there.
C5_Witness ==
    /\ DOMAIN kvMap = {"a", "b"}
    /\ kvMap["a"] = "2"
    /\ \E i, j \in Requests :
          /\ IsSet(i) /\ reqs[i].pc = "unlock" /\ reqs[i].key = "a"
          /\ reqs[i].value = "2" /\ reqs[i].w.body = "202\n"
          /\ IsSet(j) /\ reqs[j].pc = "done" /\ reqs[j].key = "a" /\ reqs[j].value = "1"

\* C6: every map access is made by the one request that holds the mutex, so
\* at most one request at a time is in a map operation; no assignment is
\* lost (every key assigned is present with the value last assigned), and a
\* /get answers with exactly the value assigned for its key.
InCriticalSection(i) == reqs[i].pc \in {"map", "mapping", "respond", "unlock"}
C6_MutualExclusion ==
    /\ \A i \in Requests : InCriticalSection(i) => mutex = i
    /\ Cardinality({i \in Requests : InCriticalSection(i)}) <= 1
    /\ \A i \in Requests : reqs[i].pc = "mapping" => reqs[i].snap = kvMap
    /\ \A p \in lastSet : p[1] \in DOMAIN kvMap /\ kvMap[p[1]] = p[2]
    /\ \A i \in Requests :
          (IsGet(i) /\ Answered(i) /\ reqs[i].ok)
            => (reqs[i].expect = {reqs[i].value}
                /\ reqs[i].w.body = Encode(reqs[i].value))

\* C6 witness: a /set of "a" is in the middle of its map assignment while a
\* /set of "b" waits for the mutex.
C6_Witness ==
    \E i, j \in Requests :
        /\ IsSet(i) /\ reqs[i].pc = "mapping" /\ reqs[i].key = "a"
        /\ IsSet(j) /\ reqs[j].pc = "lock" /\ reqs[j].key = "b"
        /\ mutex = i

\* C7 (as claimed): a handler holds the mutex neither when it reads and
\* decodes the body nor when it writes its response.
C7_NoLockAcrossIO ==
    \A i \in Requests :
        reqs[i].pc \in {"decode", "respond"} => mutex # i

(***************************************************************************)
(* Claims about the process lifecycle.                                     *)
(***************************************************************************)
\* the place of a lifecycle state in Configuring, Serving, Draining, Terminated
Rank(p) ==
    CASE p = "Configuring" -> 1
      [] p = "Serving" -> 2
      [] p = "Draining" -> 3
      [] p = "Terminated" -> 4
      [] OTHER -> 0
Drained == phase = "Terminated" /\ stop = "received"

\* C11: the lifecycle state is one of Configuring, Serving, Draining,
\* Terminated and every change of it goes to a later one, so none is entered
\* twice; Draining is entered only by main taking a delivered signal out of
\* the channel, so in Draining a signal has been received; from Draining on
\* the listener is not bound and no request is accepted.
C11_LifecycleForward ==
    /\ [](/\ Rank(phase) > 0
          /\ phase = "Draining" => stop = "received"
          /\ phase \in {"Draining", "Terminated"} => listener # "bound"
          /\ stop # "empty" => phase # "Configuring")
    /\ [][/\ phase' # phase => Rank(phase') > Rank(phase)
          /\ (phase' = "Draining" /\ phase # "Draining")
                => (phase = "Serving" /\ stop = "queued" /\ stop' = "received")
          /\ phase \in {"Draining", "Terminated"}
                => \A i \in Requests :
                      ~InFlight(i) => reqs'[i] = reqs[i]]_vars

\* C11 witness: the process went from Configuring through Serving, where it
\* answered a request, and Draining to Terminated with status 0.
C11_Witness ==
    /\ Drained
    /\ exitCode = 0
    /\ listener = "closed"
    /\ \E i \in Requests : reqs[i].pc = "done"

\* C12 (as claimed): after a signal the drain ends with status 0 and no
\* request in flight if every request completed before the deadline passed,
\* and with status 1, at or after the deadline, if a request was in flight
\* when the deadline passed.
C12_DrainOutcomeByDeadline ==
    Drained =>
        /\ ~overdue => (exitCode = 0 /\ \A i \in Requests : ~InFlight(i))
        /\ overdue => (exitCode = 1 /\ clock >= env.ShutdownTimeout)

\* C12 (amended): after a signal no request in flight is cancelled: while
\* Draining a request changes only by its own handler's steps. The drain ends
\* with status 0 only when Shutdown looks and finds no request in flight,
\* every response written and every decoded /set in the store; it ends with
\* status 1 only when the deadline has passed since Shutdown last found a
\* request in flight, never before the deadline. A request that completes
\* between that look and the deadline does not make the exit clean.
C12_DrainOutcome ==
    /\ [](Drained =>
            /\ exitCode \in {0, 1}
            /\ exitCode = 0 =>
                  /\ mainPc = "returned"
                  /\ \A i \in Requests :
                        /\ ~InFlight(i)
                        /\ reqs[i].pc = "done" => reqs[i].w.status # 0
                        /\ (reqs[i].pc = "done" /\ IsSet(i) /\ ~Malformed(i))
                              => reqs[i].key \in DOMAIN kvMap
                  /\ StoreIsLastSet
            /\ exitCode = 1 =>
                  /\ mainPc = "fatal"
                  /\ clock >= env.ShutdownTimeout)
    /\ [][phase = "Draining" =>
            /\ \A i \in Requests :
                  (InFlight(i) /\ reqs'[i] # reqs[i])
                    => /\ reqs'[i].pc # "idle"
                       /\ reqs'[i].path = reqs[i].path
                       /\ reqs'[i].body = reqs[i].body
                       /\ reqs'[i].pc = "done" => reqs'[i].w.status # 0
            /\ phase' = "Terminated"
                  => \/ /\ exitCode' = 0
                        /\ mainPc = "shutdown"
                        /\ \A i \in Requests : ~InFlight(i)
                     \/ /\ exitCode' = 1
                        /\ mainPc = "waiting"
                        /\ clock >= env.ShutdownTimeout]_vars

\* C12 witness: with a timeout of one second the deadline passed while a /set
\* that had made its assignment was still to write its response; the process
\* ended with status 1 at the deadline.
C12_Witness ==
    /\ Drained
    /\ exitCode = 1
    /\ env.ShutdownTimeout = 1
    /\ clock = 1
    /\ overdue
    /\ \E i \in Requests : IsSet(i) /\ reqs[i].pc = "respond"

(***************************************************************************)
(* Further claims about the handlers.                                      *)
(***************************************************************************)
IsProbe(i) == reqs[i].path \in {"/healthz", "/readyz"}

\* C13: a /healthz or /readyz request can always take its step, whatever the
\* store holds and whoever holds the mutex, and is answered 200 with an empty
\* body; it never holds or waits for the mutex and never reads the map.
C13_ProbesAlwaysSucceed ==
    \A i \in Requests :
        IsProbe(i) =>
            /\ reqs[i].pc \in {"probe", "done"}
            /\ reqs[i].pc = "probe" => ENABLED ProbeHandler(i)
            /\ reqs[i].pc = "done" => (reqs[i].w.status = StatusOK /\ reqs[i].w.body = "")
            /\ mutex # i
            /\ ~reqs[i].locked
            /\ reqs[i].snap = EmptyMap
            /\ reqs[i].expect = {}

\* C13 witness: /healthz was answered 200 while a /set holds the mutex and
\* the store holds a key.
C13_Witness ==
    \E i, j \in Requests :
        /\ reqs[i].path = "/healthz" /\ reqs[i].pc = "done" /\ reqs[i].w.status = 200
        /\ IsSet(j) /\ mutex = j
        /\ DOMAIN kvMap # {}

\* service.go:157-211: what the handler registered for a path writes when it
\* is called with a request of that body; found is the set holding the value
\* assigned to the key when a /get looks it up, empty if there is none
HandlerResponse(path, body, found) ==
    IF path \in {"/healthz", "/readyz"} THEN WriteHeader(NewResponse, StatusOK)
    ELSE IF path = "/set"
    THEN LET w0 == HeaderSet(NewResponse, "text/plain")
             payload == Decode(body, "SetRequest")
         IN  IF payload.err # "" THEN Error(w0, payload.err, StatusBadRequest)
             ELSE Fprintln(w0, StatusAccepted)
    ELSE LET w0 == HeaderSet(NewResponse, "application/json")
             payload == Decode(body, "GetRequest")
         IN  IF payload.err # "" THEN Error(w0, payload.err, StatusBadRequest)
             ELSE IF found = {} THEN Error(w0, "Key not found", StatusNotFound)
             ELSE Write(w0, Encode(CHOOSE v \in found : TRUE))

\* C14: with the middleware enabled a request on any of the four paths goes
\* to MiddlewareLogRequest first; its step logs, calls the wrapped handler
\* once and leaves the request, the response and the store as they were, so
\* the request enters the handler exactly as it does with the middleware
\* disabled. Enabled or disabled, every answer is what the handler writes for
\* that request and the store holds the last value assigned to every key.
C14_MiddlewareTransparent ==
    /\ [](/\ StoreIsLastSet
          /\ \A i \in Requests :
                reqs[i].pc # "idle" =>
                    /\ reqs[i].pc = "middleware"
                          => (/\ env.EnableLoggingMiddleware
                              /\ ~reqs[i].logged
                              /\ reqs[i].calls = 0
                              /\ reqs[i].w = NewResponse
                              /\ mutex # i)
                    /\ reqs[i].pc # "middleware"
                          => (/\ reqs[i].logged = env.EnableLoggingMiddleware
                              /\ reqs[i].calls = 1)
                    /\ reqs[i].pc = "done"
                          => reqs[i].w = HandlerResponse(reqs[i].path, reqs[i].body,
                                                         reqs[i].expect))
    /\ [][\A i \in Requests :
            /\ (~InFlight(i) /\ reqs'[i] # reqs[i])
                  => (/\ reqs'[i].path \in {"/set", "/get", "/healthz", "/readyz"}
                      /\ reqs'[i].pc = IF env.EnableLoggingMiddleware THEN "middleware"
                                       ELSE Endpoint(reqs'[i].path))
            /\ (reqs[i].pc = "middleware" /\ reqs'[i] # reqs[i])
                  => (/\ reqs'[i] = [reqs[i] EXCEPT !.logged = TRUE, !.calls = 1,
                                                    !.pc = Endpoint(reqs[i].path)]
                      /\ [reqs'[i] EXCEPT !.logged = FALSE]
                            = [IdleRequest EXCEPT !.pc = Endpoint(reqs[i].path),
                                                  !.path = reqs[i].path,
                                                  !.body = reqs[i].body,
                                                  !.calls = 1]
                      /\ kvMap' = kvMap
                      /\ mutex' = mutex
                      /\ lastSet' = lastSet)]_vars

\* C14 witness: with the middleware enabled a /get, logged and handled once,
\* was answered 200 with the value a /set before it had assigned.
C14_Witness ==
    /\ env.EnableLoggingMiddleware
    /\ DOMAIN kvMap # {}
    /\ \E i \in Requests :
          /\ IsGet(i) /\ reqs[i].pc = "done"
          /\ reqs[i].logged /\ reqs[i].calls = 1
          /\ reqs[i].w.status = 200

\* C15: a /get of k that has answered gave the value of the /set of k that
\* last acquired the mutex before the /get acquired it, with status 200, or
\* "Key not found" with 404 if no /set of k had acquired it; this also when a
\* /set passed the /get while it waited for the mutex, that is when the /set
\* acquired the mutex after the /get had arrived and finished decoding.
C15_LockOrderIsEffectOrder ==
    \A i \in Requests :
        (IsGet(i) /\ Answered(i)) =>
            /\ reqs[i].atLock = {}
                  => (reqs[i].w.status = StatusNotFound
                      /\ reqs[i].w.body = "Key not found\n")
            /\ \A v \in reqs[i].atLock :
                  (reqs[i].w.status = StatusOK /\ reqs[i].w.body = Encode(v))
            /\ Cardinality(reqs[i].atLock) <= 1

\* C15 witness: a /get of "a" finished decoding and waited for the mutex
\* while a /set of ("a", "2") acquired it; the /get then answered with "2".
C15_Witness ==
    \E i \in Requests :
        /\ IsGet(i) /\ reqs[i].pc = "unlock" /\ reqs[i].passed
        /\ reqs[i].key = "a"
        /\ reqs[i].atLock = {"2"}
        /\ reqs[i].w.status = 200
        /\ reqs[i].w.body = "{\"value\":\"2\"}\n"

\* C16: when the bind fails the process is Terminated with a non-zero status
\* in that same step, with main still at its wait for a signal: no state has
\* a failed listener and a live process. A listener closed by Shutdown is no
\* failure: the step that closes it sets no exit status and ends nothing.
C16_BindFailureIsFatal ==
    /\ [](/\ listener = "failed"
                => (/\ phase = "Terminated"
                    /\ exitCode # 0 /\ exitCode # -1
                    /\ mainPc = "serving"
                    /\ stop # "received")
          /\ listener = "closed" => stop = "received"
          /\ (listener = "closed" /\ phase = "Terminated") => mainPc \in {"returned", "fatal"})
    /\ [][/\ (listener' = "failed" /\ listener # "failed")
                => (phase = "Serving" /\ mainPc = "serving" /\ phase' = "Terminated")
          /\ (listener' = "closed" /\ listener # "closed")
                => (exitCode' = exitCode /\ phase' = "Draining")]_vars

\* C16 witness: the bind failed while main waited and no signal had come; the
\* process has ended with status 1.
C16_Witness ==
    /\ listener = "failed"
    /\ stop = "empty"
    /\ mainPc = "serving"
    /\ phase = "Terminated"
    /\ exitCode = 1

\* C17: under SpecFair a /set or /get that waits for the mutex eventually
\* holds it, and eventually has written its response and returned.
C17_NoIndefiniteBlocking ==
    \A i \in FairRequests :
        /\ (reqs[i].pc = "lock") ~> (mutex = i /\ reqs[i].pc = "map")
        /\ (reqs[i].pc = "lock") ~> (reqs[i].pc = "done" /\ reqs[i].w.status # 0)
        /\ InFlight(i) ~> (reqs[i].pc = "done")

\* C17 witness: a /get waits for the mutex while a /set, its assignment made,
\* holds it.
C17_Witness ==
    \E i, j \in FairRequests :
        /\ IsGet(i) /\ reqs[i].pc = "lock"
        /\ IsSet(j) /\ mutex = j /\ reqs[j].pc = "respond"

(***************************************************************************)
(* Further claims about configuration resolution.                          *)
(***************************************************************************)
\* C18 (as claimed): a zero shutdown timeout given at any tier counts as not
\* given: the ServerConfig main hands to server() never has a zero
\* ShutdownTimeout, and with --shutdown-timeout=0s and SHUTDOWN_TIMEOUT unset
\* it has the 10-second default.
C18_ZeroTimeoutIsAbsent ==
    mainPc = "serving" =>
        /\ env.ShutdownTimeout # 0
        /\ (args["shutdown-timeout"] = Duration(0) /\ environ.SHUTDOWN_TIMEOUT = "")
              => env.ShutdownTimeout = DefaultShutdownTimeout

(***************************************************************************)
(* Claims about the mutex and the frame of the store.                      *)
(***************************************************************************)
\* C19: the mutex is held only by a request between its kv.Lock() and its
\* deferred Unlock, so it is free whenever no /set or /get is there; a
\* request that acquired it has released it when it has returned, on each
\* return path (set answered, get found, get not found); a request waiting
\* in kv.Lock() does not hold the mutex, and each request locks at most once.
C19_LockReleasedOnEveryPath ==
    /\ mutex # 0 => (mutex \in Requests /\ InCriticalSection(mutex))
    /\ (\A i \in Requests : ~InCriticalSection(i)) => mutex = 0
    /\ \A i \in Requests :
          /\ reqs[i].pc = "done" => mutex # i
          /\ reqs[i].pc = "lock" => (mutex # i /\ ~reqs[i].locked)
          /\ reqs[i].locked => (reqs[i].path \in {"/set", "/get"} /\ ~Malformed(i))
          /\ (reqs[i].locked /\ reqs[i].pc = "done")
                => reqs[i].w.status \in {StatusOK, StatusNotFound}

\* C19 witness: a /get that found nothing and a /set have both held the
\* mutex and returned; the mutex is free.
C19_Witness ==
    /\ mutex = 0
    /\ \E i, j \in Requests :
          /\ IsGet(i) /\ reqs[i].pc = "done" /\ reqs[i].locked
          /\ reqs[i].w.status = 404
          /\ IsSet(j) /\ reqs[j].pc = "done" /\ reqs[j].locked

\* C20: a step changes the map only if it is the assignment of a /set whose
\* body decoded, and then only at that request's key: every other key keeps
\* its entry and no key is removed. A step of a /get, of a probe or of a /set
\* whose body does not decode leaves the map as it is. A /get that looks up a
\* key that is in the map finds it, so a key once found stays found.
C20_StoreFrame ==
    /\ [](\A i \in Requests :
            (IsGet(i) /\ Answered(i) /\ reqs[i].w.status = StatusOK)
              => reqs[i].key \in DOMAIN kvMap)
    /\ [][/\ DOMAIN kvMap \subseteq DOMAIN kvMap'
          /\ kvMap' # kvMap
                => \E i \in Requests :
                      /\ IsSet(i) /\ ~Malformed(i)
                      /\ reqs[i].pc = "mapping" /\ reqs'[i].pc = "respond"
                      /\ DOMAIN kvMap' = DOMAIN kvMap \cup {reqs[i].body.key}
                      /\ kvMap'[reqs[i].body.key] = reqs[i].body.value
                      /\ \A k \in DOMAIN kvMap :
                            k # reqs[i].body.key => kvMap'[k] = kvMap[k]
          /\ \A i \in Requests :
                /\ (reqs'[i] # reqs[i] /\ (reqs'[i].path # "/set" \/ reqs'[i].body.kind # "object"))
                      => kvMap' = kvMap
                /\ (IsGet(i) /\ reqs[i].pc = "mapping" /\ reqs'[i].pc = "respond")
                      => reqs'[i].ok = (reqs[i].key \in DOMAIN kvMap)]_vars

\* C20 witness: a /get of "b" was answered 404 and a /get of "a" 200; the map
\* holds "a" alone, as the /set of ("a", "1") left it.
C20_Witness ==
    /\ DOMAIN kvMap = {"a"}
    /\ kvMap["a"] = "1"
    /\ \E i, j \in Requests :
          /\ IsGet(i) /\ reqs[i].pc = "done" /\ reqs[i].key = "b" /\ reqs[i].w.status = 404
          /\ IsGet(j) /\ reqs[j].pc = "done" /\ reqs[j].key = "a" /\ reqs[j].w.status = 200

====
